---- MODULE Spec2Model ----
(***************************************************************************)
(* Model of the veryfiable_service repository: the schema registration     *)
(* script (scripts/register-schema.js) and the HTTP service (index.js).    *)
(*                                                                         *)
(* Strings the code inspects character by character (the two regular      *)
(* expressions, startsWith, includes) are sequences of one-character       *)
(* strings.  Messages the code builds are sequences of chunks: the         *)
(* literals of the source, interleaved with the interpolated values.       *)
(***************************************************************************)
EXTENDS Integers, Sequences, FiniteSets, TLC

VARIABLES
    env,            \* process.env as the script sees it
    pc,             \* position of main() in the registration workflow
    config,         \* value returned by validateEnvironment, once it returned
    balance,        \* wallet balance read by connectToNetwork
    registerResult, \* what schemaRegistry.register resolved to
    receipt,        \* what transaction.wait() resolved to
    cause,          \* the error a library call rejected with
    registerCalls,  \* number of schemaRegistry.register calls made
    waited,         \* whether transaction.wait() was called
    returned,       \* value returned by registerSchema
    thrown,         \* error caught by the catch block of main()
    stdout,         \* what the script printed, in order
    exitCode,       \* process.exit status; -1 while running
    nodeEnv,        \* process.env.NODE_ENV of the service
    process,        \* the service process: running, or crashed
    listener,       \* the HTTP listener of the service
    sigterm,        \* whether SIGTERM was delivered
    inflight,       \* health requests awaiting testConnection()
    last,           \* the request answered last, with its response
    attestations,   \* the rows of the attestations table
    lastInsert      \* the INSERT executed last, and whether it was accepted

regVars == <<env, pc, config, balance, registerResult, receipt, cause,
             registerCalls, waited, returned, thrown, stdout, exitCode>>

svcVars == <<nodeEnv, process, listener, sigterm, inflight, last>>

dbVars == <<attestations, lastInsert>>

vars == <<regVars, svcVars, dbVars>>

----------------------------------------------------------------------------
(* Bounds of the model *)

\* lengths tried around the exact length a regular expression asks for
LenSlack == 2
\* logs in a receipt, and topics in its first log
MaxLogs == 2
MaxTopics == 2
\* health requests awaiting the database at the same time
MaxInflight == 2

----------------------------------------------------------------------------
(* Strings *)

Range(s) == {s[i] : i \in 1..Len(s)}

HexChars == {"0","1","2","3","4","5","6","7","8","9",
             "a","b","c","d","e","f","A","B","C","D","E","F"}

\* String.prototype.startsWith
StartsWith(s, p) == Len(s) >= Len(p) /\ SubSeq(s, 1, Len(p)) = p

\* String.prototype.includes
Includes(s, p) ==
    \E i \in 0..(Len(s) - Len(p)) : SubSeq(s, i + 1, i + Len(p)) = p

\* Array.prototype.join
RECURSIVE Join(_, _)
Join(xs, sep) ==
    IF Len(xs) = 0 THEN <<>>
    ELSE IF Len(xs) = 1 THEN <<xs[1]>>
    ELSE <<xs[1], sep>> \o Join(Tail(xs), sep)

Prefix0x == <<"0", "x">>

\* an environment variable: unset, or set to a string
Unset == [set |-> FALSE, val |-> <<>>]
Set(s) == [set |-> TRUE, val |-> s]

\* JavaScript truthiness of process.env[name]: undefined and "" are falsy
Truthy(v) == v.set /\ Len(v.val) > 0

----------------------------------------------------------------------------
(* validateEnvironment *)

KeyHexLen == 64
AddrHexLen == 40

requiredVars == <<"RPC_URL", "PRIVATE_KEY", "SCHEMA_REGISTRY_ADDRESS">>

\* /^(0x)?[0-9a-fA-F]{64}$/.test(s)
AllHex(s) == \A i \in 1..Len(s) : s[i] \in HexChars

PrivateKeyRegexAnyLength(s) ==
    \/ AllHex(s) /\ Len(s) > 0
    \/ StartsWith(s, Prefix0x) /\ AllHex(SubSeq(s, 3, Len(s))) /\ Len(s) > 2

PrivateKeyRegex(s) ==
    \/ Len(s) = KeyHexLen /\ AllHex(s)
    \/ /\ StartsWith(s, Prefix0x)
       /\ Len(s) = KeyHexLen + 2
       /\ AllHex(SubSeq(s, 3, Len(s)))

AddressRegexOptionalPrefix(s) ==
    \/ Len(s) = AddrHexLen /\ AllHex(s)
    \/ /\ StartsWith(s, Prefix0x)
       /\ Len(s) = AddrHexLen + 2
       /\ AllHex(SubSeq(s, 3, Len(s)))

\* /^0x[0-9a-fA-F]{40}$/.test(s)
AddressRegex(s) ==
    /\ StartsWith(s, Prefix0x)
    /\ Len(s) = AddrHexLen + 2
    /\ AllHex(SubSeq(s, 3, Len(s)))

MissingVarsFirstOnly(e) ==
    LET all == SelectSeq(requiredVars, LAMBDA v : ~Truthy(e[v]))
    IN  IF Len(all) = 0 THEN all ELSE <<all[1]>>

\* lines 66-72: the required variables that are unset or empty, in order
MissingVars(e) == SelectSeq(requiredVars, LAMBDA v : ~Truthy(e[v]))

MissingMessage(missing) ==
    <<"Missing required environment variables: ">> \o Join(missing, ", ")
    \o <<"\n", "Please ensure your .env file includes all required variables.",
         "\n", "See README.md for setup instructions.">>

InvalidKeyMessage ==
    <<"Invalid PRIVATE_KEY format. Must be a 64-character hexadecimal string (with or without 0x prefix).">>

InvalidAddressMessage ==
    <<"Invalid SCHEMA_REGISTRY_ADDRESS format. Must be a valid Ethereum address.">>

NoConfig == [rpcUrl |-> <<>>, privateKey |-> <<>>, schemaRegistryAddress |-> <<>>]

\* line 102
NormalizeKey(k) == IF StartsWith(k, Prefix0x) THEN k ELSE Prefix0x \o k

validateEnvironmentAddressFirst(e) ==
    LET missing == MissingVars(e)
        privateKey == e.PRIVATE_KEY.val
        registryAddress == e.SCHEMA_REGISTRY_ADDRESS.val
    IN  IF Len(missing) > 0
        THEN [threw |-> TRUE, message |-> MissingMessage(missing), config |-> NoConfig]
        ELSE IF ~AddressRegex(registryAddress)
        THEN [threw |-> TRUE, message |-> InvalidAddressMessage, config |-> NoConfig]
        ELSE IF ~PrivateKeyRegex(privateKey)
        THEN [threw |-> TRUE, message |-> InvalidKeyMessage, config |-> NoConfig]
        ELSE [threw |-> FALSE, message |-> <<>>,
              config |-> [rpcUrl |-> e.RPC_URL.val,
                          privateKey |-> NormalizeKey(privateKey),
                          schemaRegistryAddress |-> registryAddress]]

\* The result of a call: either it threw an Error with this message, or it
\* returned this configuration.
validateEnvironment(e) ==
    LET missing == MissingVars(e)
        privateKey == e.PRIVATE_KEY.val
        registryAddress == e.SCHEMA_REGISTRY_ADDRESS.val
    IN  IF Len(missing) > 0
        THEN [threw |-> TRUE, message |-> MissingMessage(missing), config |-> NoConfig]
        ELSE IF ~PrivateKeyRegex(privateKey)
        THEN [threw |-> TRUE, message |-> InvalidKeyMessage, config |-> NoConfig]
        ELSE IF ~AddressRegex(registryAddress)
        THEN [threw |-> TRUE, message |-> InvalidAddressMessage, config |-> NoConfig]
        ELSE [threw |-> FALSE, message |-> <<>>,
              config |-> [rpcUrl |-> e.RPC_URL.val,
                          privateKey |-> NormalizeKey(privateKey),
                          schemaRegistryAddress |-> registryAddress]]

----------------------------------------------------------------------------
(* Values of the libraries the script talks to *)

\* a value that may be undefined: a list of no or one element
None == <<>>
Some(x) == <<x>>

\* arr[i] of JavaScript: arrays start at 0, and reading past the end yields
\* undefined
Index(arr, i) == IF i + 1 <= Len(arr) THEN Some(arr[i + 1]) ELSE None

\* An Error object.  origin tells a library's error from one the script
\* constructs with `new Error(...)`; code is "none" when error.code is
\* undefined; message.has is FALSE when error.message is undefined.
LibError(code, message) == [origin |-> "library", code |-> code, message |-> message]
ScriptError(text) ==
    [origin |-> "script", code |-> "none", message |-> [has |-> TRUE, text |-> text]]

\* `${error.message}` in a template literal
Interpolate(message) ==
    IF message.has THEN message.text ELSE <<"u","n","d","e","f","i","n","e","d">>

AlreadyExists == <<"a","l","r","e","a","d","y"," ","e","x","i","s","t","s">>

\* error.message values tried for the errors the libraries throw
ErrorMessages ==
    { [has |-> FALSE, text |-> <<>>],
      [has |-> TRUE, text |-> <<>>],
      [has |-> TRUE, text |-> AlreadyExists],
      [has |-> TRUE, text |-> <<"S"," ">> \o AlreadyExists \o <<".">>],
      [has |-> TRUE, text |-> <<"A","l","r","e","a","d","y"," ","e","x","i","s","t","s">>],
      [has |-> TRUE, text |-> <<"a","l","r","e","a","d","y","e","x","i","s","t","s">>],
      [has |-> TRUE, text |-> <<"r","e","v","e","r","t","e","d">>] }

ConnectErrorCodes == {"NETWORK_ERROR", "TIMEOUT", "SERVER_ERROR", "INVALID_ARGUMENT", "none"}
RegisterErrorCodes ==
    {"INSUFFICIENT_FUNDS", "NONCE_EXPIRED", "REPLACEMENT_UNDERPRICED", "CALL_EXCEPTION", "none"}

ConnectErrors ==
    { LibError(c, m) : c \in ConnectErrorCodes,
                       m \in { [has |-> TRUE, text |-> <<"r","e","v","e","r","t","e","d">>],
                               [has |-> FALSE, text |-> <<>>] } }
RegisterErrors == { LibError(c, m) : c \in RegisterErrorCodes, m \in ErrorMessages }

\* the awaited calls of connectToNetwork, in order
ConnectSteps == <<"getNetwork", "Wallet", "getAddress", "getBalance">>

\* what schemaRegistry.register may resolve to
DirectUIDs == {"0xuidA", "0xuidB"}
TxHashes == {"0xtx1"}

Topic(i, j) == "0xlog" \o ToString(i) \o "topic" \o ToString(j)

Log(i, topics) == [topics |-> topics]
TopicsOf(i, m) == [j \in 1..m |-> Topic(i, j)]

\* The receipts transaction.wait() may resolve to for the transaction with
\* hash h: the receipt of ethers carries the hash of its transaction as
\* transactionHash (v5), as hash (v6), or both; its logs may be missing, and
\* the first log may have no topics array.
Receipts(h) ==
    LET hashes == { [transactionHash |-> Some(h), hash |-> None],
                    [transactionHash |-> None, hash |-> Some(h)],
                    [transactionHash |-> Some(h), hash |-> Some(h)] }
        firstTopics == {None} \cup { Some(TopicsOf(1, m)) : m \in 0..MaxTopics }
        logs == {None} \cup
                { Some([i \in 1..n |-> IF i = 1 THEN Log(1, t) ELSE Log(i, Some(TopicsOf(i, MaxTopics)))])
                    : n \in 0..MaxLogs, t \in firstTopics }
    IN  { [logs |-> l, transactionHash |-> x.transactionHash, hash |-> x.hash]
            : l \in logs, x \in hashes }

----------------------------------------------------------------------------
(* registerSchema: the receipt and the errors *)

HasUIDTopicOneTopicEnough(rcpt) ==
    /\ rcpt.logs # None
    /\ Len(rcpt.logs[1]) > 0
    /\ rcpt.logs[1][1].topics # None
    /\ Len(rcpt.logs[1][1].topics[1]) > 0

\* line 213
HasUIDTopic(rcpt) ==
    /\ rcpt.logs # None
    /\ Len(rcpt.logs[1]) > 0
    /\ rcpt.logs[1][1].topics # None
    /\ Len(rcpt.logs[1][1].topics[1]) > 1

\* lines 212-219: the schema uid and whether the warning is logged
ExtractSchemaUID(rcpt) ==
    IF HasUIDTopic(rcpt)
    THEN [uid |-> Index(rcpt.logs[1][1].topics[1], 1), warned |-> FALSE]
    ELSE [uid |-> IF rcpt.transactionHash # None
                  THEN rcpt.transactionHash ELSE rcpt.hash,
          warned |-> TRUE]

InsufficientFundsMessage ==
    <<"Insufficient funds to pay for gas.", "\n",
      "Get Base Sepolia testnet ETH from: https://www.coinbase.com/faucets/base-ethereum-sepolia-faucet">>
NonceMessage == <<"Transaction nonce issue. Please try again in a few moments.">>
SchemaExistsMessage ==
    <<"Schema already exists. This schema may have been registered previously.", "\n",
      "Check your transaction history or use the existing schema UID.">>
GenericMessageWithoutCause(message) == <<"Schema registration failed: ">>

GenericMessage(message) == <<"Schema registration failed: ">> \o Interpolate(message)

MapRegisterErrorNoSubstring(error) ==
    IF error.code = "INSUFFICIENT_FUNDS"
    THEN ScriptError(InsufficientFundsMessage)
    ELSE IF error.code = "NONCE_EXPIRED" \/ error.code = "REPLACEMENT_UNDERPRICED"
    THEN ScriptError(NonceMessage)
    ELSE ScriptError(GenericMessage(error.message))

\* lines 234-258: the catch block of registerSchema
MapRegisterError(error) ==
    IF error.code = "INSUFFICIENT_FUNDS"
    THEN ScriptError(InsufficientFundsMessage)
    ELSE IF error.code = "NONCE_EXPIRED" \/ error.code = "REPLACEMENT_UNDERPRICED"
    THEN ScriptError(NonceMessage)
    ELSE IF error.message.has /\ Len(error.message.text) > 0
            /\ Includes(error.message.text, AlreadyExists)
    THEN ScriptError(SchemaExistsMessage)
    ELSE ScriptError(GenericMessage(error.message))

MapConnectErrorWrapsAll(error) ==
    ScriptError(<<"Network connection failed: ">> \o Interpolate(error.message)
                \o <<"\n", "Please check your RPC_URL and internet connection.">>)

\* lines 141-149: the catch block of connectToNetwork
MapConnectError(error) ==
    IF error.code = "NETWORK_ERROR" \/ error.code = "TIMEOUT"
    THEN ScriptError(<<"Network connection failed: ">> \o Interpolate(error.message)
                     \o <<"\n", "Please check your RPC_URL and internet connection.">>)
    ELSE error

----------------------------------------------------------------------------
(* Inputs: the environments the script is started in *)

HexBody(n, bad) ==
    [i \in 1..n |-> IF i = bad THEN "g"
                    ELSE IF i % 3 = 1 THEN "0" ELSE IF i % 3 = 2 THEN "f" ELSE "A"]

Prefixes == { <<>>, Prefix0x, <<"0", "X">> }

\* strings around the shape a regular expression asks for: with the prefix,
\* without it, with a wrong prefix; too short, exact, too long; all
\* hexadecimal, or with one other character at the start or at the end
Candidates(hexLen) ==
    { p \o HexBody(n, bad) : p \in Prefixes,
                             n \in (hexLen - LenSlack)..(hexLen + LenSlack),
                             bad \in {0, 1, hexLen - LenSlack} }

EnvValues(hexLen) == {Unset, Set(<<>>)} \cup { Set(s) : s \in Candidates(hexLen) }

RpcUrl == <<"h","t","t","p","s",":","/","/","r","p","c">>

Environments ==
    [ RPC_URL : {Unset, Set(<<>>), Set(RpcUrl)},
      PRIVATE_KEY : EnvValues(KeyHexLen),
      SCHEMA_REGISTRY_ADDRESS : EnvValues(AddrHexLen),
      DEBUG : {Unset, Set(<<"t","r","u","e">>)} ]

----------------------------------------------------------------------------
(* The HTTP service: index.js *)

Methods == {"GET", "POST", "OPTIONS"}
Paths == {"/", "/api/v1/health", "/foo"}
Queries == {"", "?x=1"}
Bodies == {"none", "json", "badjson"}

Requests == [method : Methods, path : Paths, query : Queries, body : Bodies]

NodeEnvs == {"unset", "development", "production", "test"}

\* new Date().toISOString()
Now == "timestamp"

\* What testConnection() of ./config/database settles to: it resolves to a
\* boolean or rejects with an error.
TestConnectionOutcomes ==
    { [throws |-> FALSE, value |-> TRUE, message |-> ""],
      [throws |-> FALSE, value |-> FALSE, message |-> ""],
      [throws |-> TRUE, value |-> FALSE, message |-> "connect ECONNREFUSED"] }

Response(code, body) == [code |-> code, body |-> body]

HealthResponseAlways200(outcome) ==
    Response(200, Some([status |-> IF outcome.throws THEN "unhealthy" ELSE "healthy",
                        database |-> "connected",
                        version |-> "0.1.0",
                        timestamp |-> Now]))

HealthResponseFalseUnhealthy(outcome) ==
    IF ~outcome.throws /\ outcome.value
    THEN Response(200, Some([status |-> "healthy",
                             database |-> "connected",
                             version |-> "0.1.0",
                             timestamp |-> Now]))
    ELSE Response(503, Some([status |-> "unhealthy",
                             database |-> "disconnected",
                             version |-> "0.1.0",
                             timestamp |-> Now,
                             error |-> outcome.message]))

\* lines 37-54: the body of the health handler after testConnection settled
HealthResponse(outcome) ==
    IF ~outcome.throws
    THEN Response(200, Some([status |-> "healthy",
                             database |-> IF outcome.value THEN "connected"
                                          ELSE "disconnected",
                             version |-> "0.1.0",
                             timestamp |-> Now]))
    ELSE Response(503, Some([status |-> "unhealthy",
                             database |-> "disconnected",
                             version |-> "0.1.0",
                             timestamp |-> Now,
                             error |-> outcome.message]))

\* lines 58-67
RootResponse ==
    Response(200, Some([service |-> "Veryfiable Attestation Service",
                        version |-> "0.1.0",
                        description |-> "Verified public reviews using EAS",
                        endpoints |-> [health |-> "/api/v1/health"]]))

NotFoundResponseWithoutMethod(req) ==
    Response(404, Some([error |-> "Not Found",
                        message |-> <<"Route ", req.path, " not found">>,
                        timestamp |-> Now]))

\* lines 74-80: req.path is the path without the query string
NotFoundResponse(req) ==
    Response(404, Some([error |-> "Not Found",
                        message |-> <<"Route ", req.method, " ", req.path, " not found">>,
                        timestamp |-> Now]))

\* the error express.json() passes to next() for a body that does not parse
ParseError == [status |-> 400, name |-> "SyntaxError", message |-> "Unexpected token"]

ErrorResponseStackUnlessProduction(err, mode) ==
    Response(err.status,
             Some([error |-> err.name,
                   message |-> err.message,
                   timestamp |-> Now,
                   stack |-> IF mode # "production" THEN Some("stack") ELSE None]))

\* lines 83-92
ErrorResponse(err, mode) ==
    Response(err.status,
             Some([error |-> err.name,
                   message |-> err.message,
                   timestamp |-> Now,
                   stack |-> IF mode = "development" THEN Some("stack") ELSE None]))

\* lines 18-22: cors() answers a preflight request itself
PreflightResponse == Response(204, None)

DispatchMatchesUrl(req) ==
    IF req.method = "OPTIONS" THEN "cors"
    ELSE IF req.body = "badjson" THEN "error"
    ELSE IF req.method = "GET" /\ req.path = "/api/v1/health" /\ req.query = "" THEN "health"
    ELSE IF req.method = "GET" /\ req.path = "/" /\ req.query = "" THEN "root"
    ELSE "notFound"

\* lines 18-80: the handler that answers the request, found by walking the
\* middleware chain in the order of its app.use and app.get calls
Dispatch(req) ==
    IF req.method = "OPTIONS" THEN "cors"
    ELSE IF req.body = "badjson" THEN "error"
    ELSE IF req.method = "GET" /\ req.path = "/api/v1/health" THEN "health"
    ELSE IF req.method = "GET" /\ req.path = "/" THEN "root"
    ELSE "notFound"

\* the response of a handler that answers without awaiting anything
SyncResponse(handler, req, mode) ==
    CASE handler = "cors" -> PreflightResponse
      [] handler = "error" -> ErrorResponse(ParseError, mode)
      [] handler = "root" -> RootResponse
      [] handler = "notFound" -> NotFoundResponse(req)

Answered(req, handler, outcome, response) ==
    Some([request |-> req, handler |-> handler, outcome |-> outcome,
          response |-> response])

Remove(seq, i) == SubSeq(seq, 1, i - 1) \o SubSeq(seq, i + 1, Len(seq))

\* lines 98-103: the port is bound and the callback of app.listen runs
Listening ==
    /\ process = "running"
    /\ listener = "binding"
    /\ listener' = "listening"
    /\ UNCHANGED <<nodeEnv, process, sigterm, inflight, last>>
    /\ UNCHANGED <<regVars, dbVars>>

\* a request arrives and runs down the middleware chain; the health handler
\* suspends at its await of testConnection()
Receive ==
    /\ process = "running"
    /\ listener = "listening"
    /\ \E req \in Requests :
         LET handler == Dispatch(req)
         IN  IF handler = "health"
             THEN /\ Len(inflight) < MaxInflight
                  /\ inflight' = Append(inflight, req)
                  /\ UNCHANGED last
             ELSE /\ last' = Answered(req, handler, None,
                                      SyncResponse(handler, req, nodeEnv))
                  /\ UNCHANGED inflight
    /\ UNCHANGED <<nodeEnv, process, listener, sigterm>>
    /\ UNCHANGED <<regVars, dbVars>>

\* lines 38-54: testConnection() settles and the health handler answers
HealthResolve ==
    /\ process = "running"
    /\ \E i \in 1..Len(inflight), outcome \in TestConnectionOutcomes :
         /\ last' = Answered(inflight[i], "health", Some(outcome), HealthResponse(outcome))
         /\ inflight' = Remove(inflight, i)
    /\ UNCHANGED <<nodeEnv, process, listener, sigterm>>
    /\ UNCHANGED <<regVars, dbVars>>

\* lines 106-111: the SIGTERM handler.  No `server` is declared in the file
\* (line 98 drops the value app.listen returns), so reading it at line 108
\* throws a ReferenceError before close is called: the exception is
\* uncaught and ends the process.  The listening socket goes down with the
\* process, and the requests in flight are never answered.
Sigterm ==
    /\ process = "running"
    /\ sigterm' = TRUE
    /\ process' = "crashed"
    /\ listener' = IF listener = "listening" THEN "destroyed" ELSE listener
    /\ UNCHANGED <<nodeEnv, inflight, last>>
    /\ UNCHANGED <<regVars, dbVars>>

SvcNext == Listening \/ Receive \/ HealthResolve \/ Sigterm

----------------------------------------------------------------------------
(* The registration workflow: main() *)

Line(kind, text) == [kind |-> kind, text |-> text]

\* lines 190-201 and 221-231: the success report of registerSchema
SuccessReport(uid) ==
    << Line("success", <<"Schema registered successfully!">>),
       Line("uid", <<"Schema UID: ">> \o (IF uid = None THEN <<"undefined">> ELSE uid)) >>

DebugTrue == Set(<<"t","r","u","e">>)

MainCatchRetries(error, sofar) ==
    /\ thrown' = Some(error)
    /\ stdout' = <<>>
    /\ exitCode' = -1
    /\ pc' = "start"

MainCatchExitsZero(error, sofar) ==
    /\ thrown' = Some(error)
    /\ stdout' = stdout \o sofar \o << Line("error", Interpolate(error.message)) >>
    /\ exitCode' = 0
    /\ pc' = "failed"

\* lines 286-296: the catch block of main, entered with this error after the
\* failing function printed the lines sofar
MainCatch(error, sofar) ==
    /\ thrown' = Some(error)
    /\ stdout' = stdout \o sofar \o << Line("error", Interpolate(error.message)) >>
                 \o (IF env.DEBUG = DebugTrue
                     THEN << Line("stack", <<"Stack trace:">>) >> ELSE <<>>)
    /\ exitCode' = 1
    /\ pc' = "failed"

\* The script starts in any of the environments; the service is a separate
\* process, and its variables stay as they are while the script runs.
Init ==
    /\ env \in Environments
    /\ pc = "start"
    /\ config = None
    /\ balance = None
    /\ registerResult = None
    /\ receipt = None
    /\ cause = None
    /\ registerCalls = 0
    /\ waited = FALSE
    /\ returned = None
    /\ thrown = None
    /\ stdout = <<>>
    /\ exitCode = -1
    /\ nodeEnv = "unset"
    /\ process = "running"
    /\ listener = "binding"
    /\ sigterm = FALSE
    /\ inflight = <<>>
    /\ last = None
    /\ attestations = {}
    /\ lastInsert = None

\* line 274
Validate ==
    /\ pc = "start"
    /\ LET r == validateEnvironment(env)
       IN  IF r.threw
           THEN /\ MainCatch(ScriptError(r.message), <<>>)
                /\ UNCHANGED config
           ELSE /\ config' = Some(r.config)
                /\ stdout' = stdout \o
                     << Line("success", <<"Environment variables validated successfully">>) >>
                /\ pc' = "config_validated"
                /\ UNCHANGED <<thrown, exitCode>>
    /\ UNCHANGED <<env, balance, registerResult, receipt, cause, registerCalls,
                   waited, returned>>
    /\ UNCHANGED <<svcVars, dbVars>>

\* lines 121-131: what connectToNetwork logs when its first k calls succeed
ConnectLog(k) ==
    (IF k >= 1 THEN << Line("success", <<"Connected to network: ">>) >> ELSE <<>>)
    \o (IF k >= 3 THEN << Line("info", <<"Wallet address: ">>) >> ELSE <<>>)
    \o (IF k >= 4 THEN << Line("info", <<"Wallet balance: ">>) >> ELSE <<>>)

ZeroBalanceWarning ==
    Line("warning", <<"Wallet has zero balance. You will need testnet ETH to register the schema.">>)

ConnectZeroBalanceFatal ==
    /\ pc = "config_validated"
    /\ \/ \E bal \in {0, 1} :
            /\ balance' = Some(bal)
            /\ IF bal = 0
               THEN /\ MainCatch(ScriptError(ZeroBalanceWarning.text),
                                 ConnectLog(Len(ConnectSteps)))
                    /\ UNCHANGED cause
               ELSE /\ stdout' = stdout \o ConnectLog(Len(ConnectSteps))
                    /\ pc' = "connected"
                    /\ UNCHANGED <<thrown, exitCode, cause>>
       \/ \E k \in 1..Len(ConnectSteps), error \in ConnectErrors :
            /\ cause' = Some(error)
            /\ MainCatch(MapConnectError(error), ConnectLog(k - 1))
            /\ UNCHANGED balance
    /\ UNCHANGED <<env, config, registerResult, receipt, registerCalls, waited, returned>>
    /\ UNCHANGED <<svcVars, dbVars>>

\* line 278: connectToNetwork runs to its return, or to the first of its
\* calls that fails
Connect ==
    /\ pc = "config_validated"
    /\ \/ \E bal \in {0, 1} :
            /\ balance' = Some(bal)
            /\ stdout' = stdout \o ConnectLog(Len(ConnectSteps))
                         \o (IF bal = 0 THEN <<ZeroBalanceWarning>> ELSE <<>>)
            /\ pc' = "connected"
            /\ UNCHANGED <<thrown, exitCode, cause>>
       \/ \E k \in 1..Len(ConnectSteps), error \in ConnectErrors :
            /\ cause' = Some(error)
            /\ MainCatch(MapConnectError(error), ConnectLog(k - 1))
            /\ UNCHANGED balance
    /\ UNCHANGED <<env, config, registerResult, receipt, registerCalls, waited, returned>>
    /\ UNCHANGED <<svcVars, dbVars>>

StringResult(uid) == [kind |-> "string", value |-> uid]
TransactionResult(h) == [kind |-> "transaction", value |-> h]

RegisterResults ==
    { StringResult(u) : u \in DirectUIDs } \cup { TransactionResult(h) : h \in TxHashes }

IsStringNever(result) == FALSE

\* line 188: typeof transaction === 'string'
IsString(result) == result.kind = "string"

\* line 282, up to the await of transaction.wait(): schemaRegistry.register
\* resolves to a string, resolves to a pending transaction, or rejects
Register ==
    /\ pc = "connected"
    /\ registerCalls' = registerCalls + 1
    /\ \/ \E result \in RegisterResults :
            /\ registerResult' = Some(result)
            /\ IF IsString(result)
               THEN /\ returned' = Some(result.value)
                    /\ stdout' = stdout \o SuccessReport(Some(result.value))
                    /\ exitCode' = 0
                    /\ pc' = "succeeded"
                    /\ UNCHANGED <<waited, thrown, cause>>
               ELSE /\ stdout' = stdout \o
                         << Line("info", <<"Transaction hash: ", result.value>>),
                            Line("info", <<"Waiting for transaction confirmation...">>) >>
                    /\ waited' = TRUE
                    /\ pc' = "submitted"
                    /\ UNCHANGED <<returned, thrown, exitCode, cause>>
       \/ \E error \in RegisterErrors :
            /\ cause' = Some(error)
            /\ MainCatch(MapRegisterError(error), <<>>)
            /\ UNCHANGED <<registerResult, waited, returned>>
    /\ UNCHANGED <<env, config, balance, receipt>>
    /\ UNCHANGED <<svcVars, dbVars>>

\* lines 208-233: transaction.wait() resolves to a receipt, or rejects
WaitReceipt ==
    /\ pc = "submitted"
    /\ \/ \E r \in Receipts(registerResult[1].value) :
            LET x == ExtractSchemaUID(r)
            IN  /\ receipt' = Some(r)
                /\ returned' = x.uid
                /\ stdout' = stdout
                     \o (IF x.warned
                         THEN << Line("warning", <<"Could not extract schema UID from event logs, using transaction hash">>) >>
                         ELSE <<>>)
                     \o SuccessReport(x.uid)
                /\ exitCode' = 0
                /\ pc' = "succeeded"
                /\ UNCHANGED <<thrown, cause>>
       \/ \E error \in RegisterErrors :
            /\ cause' = Some(error)
            /\ MainCatch(MapRegisterError(error), <<>>)
            /\ UNCHANGED <<returned, receipt>>
    /\ UNCHANGED <<env, config, balance, registerResult, registerCalls, waited>>
    /\ UNCHANGED <<svcVars, dbVars>>

Next == Validate \/ Connect \/ Register \/ WaitReceipt

Spec == Init /\ [][Next]_vars

\* The service starts binding its port; the script is a separate process,
\* and its variables stay as they are while the service runs.
SvcInit ==
    /\ nodeEnv \in NodeEnvs
    /\ process = "running"
    /\ listener = "binding"
    /\ sigterm = FALSE
    /\ inflight = <<>>
    /\ last = None
    /\ env = [RPC_URL |-> Unset, PRIVATE_KEY |-> Unset,
              SCHEMA_REGISTRY_ADDRESS |-> Unset, DEBUG |-> Unset]
    /\ pc = "start"
    /\ config = None
    /\ balance = None
    /\ registerResult = None
    /\ receipt = None
    /\ cause = None
    /\ registerCalls = 0
    /\ waited = FALSE
    /\ returned = None
    /\ thrown = None
    /\ stdout = <<>>
    /\ exitCode = -1
    /\ attestations = {}
    /\ lastInsert = None

SvcSpec == SvcInit /\ [][SvcNext]_vars

----------------------------------------------------------------------------
(* The attestations table of the database schema *)

\* rows the table may hold
MaxRows == 2

\* CHECK (rating BETWEEN 1 AND 10)
RatingMin == 1
RatingMax == 10

\* A column value is None for NULL and Some(v) otherwise.
Uids == {Some("0x" \o ToString(i)) : i \in 1..(MaxRows + 1)}
PlatformIds == {Some("guitar-registry"), Some("yelp")}
ItemIds == {Some("item-1")}
Ratings == {Some(RatingMin - 1), Some(RatingMin), Some(RatingMax), Some(RatingMax + 1)}

\* The values of an INSERT: the columns the constraints of interest read,
\* and `rest` for schema_uid, review_text, attestation_data and
\* attester_address, TRUE when all four are given.  The id and the two
\* timestamps have defaults.
Rows ==
    [uid : Uids \cup {None},
     platform_id : PlatformIds,
     item_id : ItemIds,
     rating : Ratings \cup {None},
     rest : BOOLEAN]

\* the NOT NULL constraints of the columns
NotNull(row) ==
    /\ row.uid # None
    /\ row.platform_id # None
    /\ row.item_id # None
    /\ row.rating # None
    /\ row.rest

\* a CHECK constraint passes when its expression is true or NULL
CheckRating(row) ==
    row.rating = None \/ (RatingMin <= row.rating[1] /\ row.rating[1] <= RatingMax)

UniqueUidPerItem(table, row) ==
    row.uid = None
        \/ \A r \in table : <<r.uid, r.platform_id, r.item_id>>
                                # <<row.uid, row.platform_id, row.item_id>>

\* uid ... UNIQUE: NULLs never conflict
UniqueUid(table, row) ==
    row.uid = None \/ \A r \in table : r.uid # row.uid

Accepts(table, row) ==
    NotNull(row) /\ CheckRating(row) /\ UniqueUid(table, row)

\* INSERT INTO attestations: a row that breaks a constraint is rejected with
\* an error and the table is left as it was
Insert ==
    \E row \in Rows :
        /\ Cardinality(attestations) < MaxRows \/ ~Accepts(attestations, row)
        /\ attestations' = IF Accepts(attestations, row)
                           THEN attestations \cup {row}
                           ELSE attestations
        /\ lastInsert' = Some([row |-> row, accepted |-> Accepts(attestations, row)])
        /\ UNCHANGED <<regVars, svcVars>>

DbNext == Insert

\* The table is empty once created; the script and the service are other
\* processes, and their variables stay as they are.
DbInit ==
    /\ attestations = {}
    /\ lastInsert = None
    /\ nodeEnv = "unset"
    /\ process = "running"
    /\ listener = "binding"
    /\ sigterm = FALSE
    /\ inflight = <<>>
    /\ last = None
    /\ env = [RPC_URL |-> Unset, PRIVATE_KEY |-> Unset,
              SCHEMA_REGISTRY_ADDRESS |-> Unset, DEBUG |-> Unset]
    /\ pc = "start"
    /\ config = None
    /\ balance = None
    /\ registerResult = None
    /\ receipt = None
    /\ cause = None
    /\ registerCalls = 0
    /\ waited = FALSE
    /\ returned = None
    /\ thrown = None
    /\ stdout = <<>>
    /\ exitCode = -1

DbSpec == DbInit /\ [][DbNext]_vars

----------------------------------------------------------------------------
(* Properties of the registration workflow *)

\* what the properties say about the inputs, stated without the operators
\* of the model
Absent(name) == ~env[name].set
Present(name) == env[name].set /\ env[name].val # <<>>
AllPresent == \A i \in 1..Len(requiredVars) : Present(requiredVars[i])

IsHex(c) == c \in HexChars
HexFrom(s, first, count) ==
    /\ Len(s) = first - 1 + count
    /\ \A i \in first..Len(s) : IsHex(s[i])
Has0x(s) == Len(s) >= 2 /\ s[1] = "0" /\ s[2] = "x"

\* exactly 64 hexadecimal characters with an optional 0x prefix
KeyShape(s) == HexFrom(s, 1, 64) \/ (Has0x(s) /\ HexFrom(s, 3, 64))
\* 0x followed by exactly 40 hexadecimal characters
AddressShape(s) == Has0x(s) /\ HexFrom(s, 3, 40)

Accepted == config # None
Rejected == pc = "failed" /\ config = None /\ thrown # None /\ exitCode = 1

\* C1: whenever one or more of RPC_URL, PRIVATE_KEY and
\* SCHEMA_REGISTRY_ADDRESS is absent, validateEnvironment fails and the
\* message of its error names every absent setting.
C1_MissingSettingsAllNamed ==
    (pc # "start" /\ \E i \in 1..Len(requiredVars) : Absent(requiredVars[i]))
        => /\ Rejected
           /\ thrown[1].message.text[1] = "Missing required environment variables: "
           /\ \A i \in 1..Len(requiredVars) :
                Absent(requiredVars[i])
                    => requiredVars[i] \in Range(thrown[1].message.text)

C1_Witness ==
    /\ Rejected
    /\ Absent("RPC_URL") /\ Absent("SCHEMA_REGISTRY_ADDRESS") /\ Present("PRIVATE_KEY")
    /\ "RPC_URL" \in Range(thrown[1].message.text)
    /\ "SCHEMA_REGISTRY_ADDRESS" \in Range(thrown[1].message.text)

\* C2: with all three settings present and a well-formed registry address,
\* PRIVATE_KEY is accepted exactly when it is 64 hexadecimal characters with
\* an optional 0x prefix, and the accepted key is returned with the prefix:
\* added when absent, the value unchanged otherwise.
C2_PrivateKeyAcceptedIffShape ==
    (pc # "start" /\ AllPresent /\ AddressShape(env.SCHEMA_REGISTRY_ADDRESS.val))
        => /\ Accepted <=> KeyShape(env.PRIVATE_KEY.val)
           /\ ~Accepted => Rejected
           /\ Accepted =>
                /\ Has0x(config[1].privateKey)
                /\ config[1].privateKey =
                     IF Has0x(env.PRIVATE_KEY.val)
                     THEN env.PRIVATE_KEY.val
                     ELSE <<"0", "x">> \o env.PRIVATE_KEY.val

C2_Witness ==
    /\ Accepted
    /\ ~Has0x(env.PRIVATE_KEY.val)
    /\ Len(config[1].privateKey) = 66
    /\ Has0x(config[1].privateKey)

\* C3: with all three settings present and a well-formed credential,
\* SCHEMA_REGISTRY_ADDRESS is accepted exactly when it is 0x followed by 40
\* hexadecimal characters; without the prefix it is rejected.
C3_AddressAcceptedIffShape ==
    (pc # "start" /\ AllPresent /\ KeyShape(env.PRIVATE_KEY.val))
        => /\ Accepted <=> AddressShape(env.SCHEMA_REGISTRY_ADDRESS.val)
           /\ ~Accepted => Rejected

C3_Witness ==
    /\ Rejected
    /\ AllPresent
    /\ KeyShape(env.PRIVATE_KEY.val)
    /\ HexFrom(env.SCHEMA_REGISTRY_ADDRESS.val, 1, 40)

\* the error reached the catch block of registerSchema
RegisterFailed == pc = "failed" /\ registerCalls = 1 /\ cause # None

SaysAlreadyExists(message) ==
    /\ message.has
    /\ \E i \in 0..(Len(message.text) - Len(AlreadyExists)) :
         \A k \in 1..Len(AlreadyExists) : message.text[i + k] = AlreadyExists[k]

CodeMapped(code) ==
    code \in {"INSUFFICIENT_FUNDS", "NONCE_EXPIRED", "REPLACEMENT_UNDERPRICED"}

\* C4 as stated: an error of the register call whose message contains
\* "already exists" is reported as "Schema already exists", whatever its
\* code.
C4_AlreadyExistsWhateverCode ==
    (RegisterFailed /\ SaysAlreadyExists(cause[1].message))
        => thrown[1].message.text = SchemaExistsMessage

\* C4 as amended: an error of the register call whose message contains
\* "already exists" and whose code is none of INSUFFICIENT_FUNDS,
\* NONCE_EXPIRED and REPLACEMENT_UNDERPRICED is reported as "Schema already
\* exists"; with one of these codes it is reported by its code.
C4_AlreadyExistsUnlessCodeMapped ==
    (RegisterFailed /\ SaysAlreadyExists(cause[1].message))
        => /\ ~CodeMapped(cause[1].code)
                => thrown[1].message.text = SchemaExistsMessage
           /\ cause[1].code = "INSUFFICIENT_FUNDS"
                => thrown[1].message.text = InsufficientFundsMessage
           /\ cause[1].code \in {"NONCE_EXPIRED", "REPLACEMENT_UNDERPRICED"}
                => thrown[1].message.text = NonceMessage

C4_Witness ==
    /\ RegisterFailed
    /\ cause[1].code = "CALL_EXCEPTION"
    /\ Len(cause[1].message.text) > Len(AlreadyExists)
    /\ SaysAlreadyExists(cause[1].message)
    /\ thrown[1].message.text = SchemaExistsMessage

\* the topics of the first log of the receipt; none when there is no log
FirstLogTopics ==
    IF receipt = None \/ receipt[1].logs = None THEN <<>>
    ELSE IF Len(receipt[1].logs[1]) = 0 THEN <<>>
    ELSE IF receipt[1].logs[1][1].topics = None THEN <<>>
    ELSE receipt[1].logs[1][1].topics[1]

Warned(text) == \E i \in 1..Len(stdout) : stdout[i] = Line("warning", <<text>>)
FallbackWarning == "Could not extract schema UID from event logs, using transaction hash"

\* C5: when register returns a pending transaction, registerSchema waits for
\* it; once the receipt is there it returns the second topic of the first
\* log, or, when there is no log or the first log has fewer than two topics,
\* the hash of the transaction with a warning, and the run succeeds.
C5_PendingTransactionUID ==
    /\ (registerResult # None /\ registerResult[1].kind = "transaction") => waited
    /\ receipt # None =>
         /\ pc = "succeeded" /\ exitCode = 0 /\ thrown = None
         /\ IF Len(FirstLogTopics) >= 2
            THEN returned = Some(FirstLogTopics[2]) /\ ~Warned(FallbackWarning)
            ELSE returned = Some(registerResult[1].value) /\ Warned(FallbackWarning)

C5_Witness ==
    /\ receipt # None
    /\ Len(FirstLogTopics) = 1
    /\ returned = Some("0xtx1")
    /\ Warned(FallbackWarning)
    /\ exitCode = 0

\* C6: when register returns a plain string, registerSchema returns exactly
\* that string and never waits on a transaction.
C6_StringResultReturnedUnchanged ==
    (registerResult # None /\ registerResult[1].kind = "string")
        => /\ returned = Some(registerResult[1].value)
           /\ ~waited
           /\ receipt = None
           /\ pc = "succeeded"

C6_Witness ==
    /\ registerResult = Some(StringResult("0xuidB"))
    /\ returned = Some("0xuidB")
    /\ ~waited
    /\ exitCode = 0

Rank(p) ==
    CASE p = "start" -> 0
      [] p = "config_validated" -> 1
      [] p = "connected" -> 2
      [] p = "submitted" -> 3
      [] p = "succeeded" -> 4
      [] p = "failed" -> 4

\* C8: the workflow only moves forward through start, config_validated,
\* connected, submitted and then succeeded or failed; register is called at
\* most once and only after validation and connection succeeded; after a
\* failure or a success nothing more happens.
C8_LinearNoRetry ==
    [][ /\ pc' # pc => Rank(pc') > Rank(pc)
        /\ pc \in {"succeeded", "failed"} => UNCHANGED regVars
        /\ registerCalls' <= 1
        /\ registerCalls' # registerCalls
             => /\ pc = "connected" /\ config # None /\ balance # None
                /\ thrown = None
                /\ pc' \in {"submitted", "succeeded", "failed"}
        /\ pc' = "failed" => thrown' # None
      ]_regVars

C8_Witness ==
    /\ pc = "failed"
    /\ registerCalls = 1
    /\ waited
    /\ config # None /\ balance # None

Printed(kind) == \E i \in 1..Len(stdout) : stdout[i].kind = kind

\* C9: a run ends with status 0 after validation, connection and submission
\* succeeded and the schema uid was printed, or with status 1 and the message
\* of the error printed; never with a uid printed and status 1, never with
\* status 0 and no uid.
C9_ExitOutcomes ==
    /\ exitCode \in {-1, 0, 1}
    /\ exitCode # -1 <=> pc \in {"succeeded", "failed"}
    /\ exitCode = -1 => ~Printed("uid") /\ ~Printed("error")
    /\ exitCode = 0 =>
         /\ pc = "succeeded"
         /\ config # None /\ balance # None /\ registerCalls = 1
         /\ thrown = None /\ ~Printed("error")
         /\ returned # None
         /\ stdout[Len(stdout)] = Line("uid", <<"Schema UID: ", returned[1]>>)
    /\ exitCode = 1 =>
         /\ pc = "failed"
         /\ thrown # None
         /\ ~Printed("uid")
         /\ returned = None
         /\ \E i \in 1..Len(stdout) :
              stdout[i] = Line("error", Interpolate(thrown[1].message))

C9_Witness ==
    /\ exitCode = 1
    /\ registerCalls = 1
    /\ waited
    /\ Printed("error")

----------------------------------------------------------------------------
(* Properties of the HTTP service *)

\* C7 as stated: once SIGTERM has arrived at the listening service, its
\* handler has closed the HTTP listener.
C7_SigtermClosesListener ==
    (sigterm /\ listener # "binding") => listener = "closed"

IsHealthRequest(req) == req.method = "GET" /\ req.path = "/api/v1/health"

\* C10: GET /api/v1/health answers 200 with database "connected" when the
\* connectivity check resolves true, and 503 with status "unhealthy" when the
\* check throws.
C10_HealthStatus ==
    (last # None /\ IsHealthRequest(last[1].request) /\ last[1].outcome # None)
        => LET check == last[1].outcome[1]
               answer == last[1].response
           IN  /\ (~check.throws /\ check.value)
                    => answer.code = 200 /\ answer.body[1].database = "connected"
               /\ check.throws
                    => answer.code = 503 /\ answer.body[1].status = "unhealthy"

C10_Witness ==
    /\ last # None
    /\ IsHealthRequest(last[1].request)
    /\ last[1].outcome # None
    /\ last[1].outcome[1].throws
    /\ last[1].response.code = 503
    /\ last[1].response.body[1].status = "unhealthy"

----------------------------------------------------------------------------
(* Properties of the error handling of the registration workflow *)

IsGeneric(text, message) ==
    /\ Len(text) >= 1
    /\ text[1] = "Schema registration failed: "
    /\ message.has =>
         /\ Len(text) = 1 + Len(message.text)
         /\ \A k \in 1..Len(message.text) : text[1 + k] = message.text[k]

\* C11: every failure of the register call is reported with exactly one of
\* four messages: insufficient funds for code INSUFFICIENT_FUNDS, the nonce
\* message with its retry hint for NONCE_EXPIRED and REPLACEMENT_UNDERPRICED,
\* "Schema already exists" for a message containing "already exists", and for
\* an error matching none of these "Schema registration failed: " followed
\* by the text of the original message.
C11_FourRegisterMessages ==
    RegisterFailed =>
        LET error == cause[1]
            text == thrown[1].message.text
            funds == text = InsufficientFundsMessage
            nonce == text = NonceMessage
            exists == text = SchemaExistsMessage
            generic == IsGeneric(text, error.message)
        IN  /\ thrown[1].origin = "script"
            /\ Cardinality({k \in 1..4 : <<funds, nonce, exists, generic>>[k]}) = 1
            /\ error.code = "INSUFFICIENT_FUNDS" => funds
            /\ error.code \in {"NONCE_EXPIRED", "REPLACEMENT_UNDERPRICED"}
                 => nonce /\ "Transaction nonce issue. Please try again in a few moments." \in Range(text)
            /\ (~CodeMapped(error.code) /\ SaysAlreadyExists(error.message)) => exists
            /\ (~CodeMapped(error.code) /\ ~SaysAlreadyExists(error.message)) => generic

C11_Witness ==
    /\ RegisterFailed
    /\ cause[1].code = "CALL_EXCEPTION"
    /\ cause[1].message = [has |-> TRUE, text |-> <<"r","e","v","e","r","t","e","d">>]
    /\ thrown[1].message.text =
         <<"Schema registration failed: ", "r","e","v","e","r","t","e","d">>

\* the error reached the catch block of connectToNetwork
ConnectFailed ==
    pc = "failed" /\ config # None /\ registerCalls = 0 /\ cause # None

NetworkLevel(code) == code \in {"NETWORK_ERROR", "TIMEOUT"}

\* C12: in connectToNetwork an error with code NETWORK_ERROR or TIMEOUT, at
\* whichever call it arises, is re-raised as a new "Network connection
\* failed" error that names RPC_URL and the internet connection; an error
\* with any other code reaches the caller as the same object.
C12_NetworkErrorsWrapped ==
    ConnectFailed =>
        IF NetworkLevel(cause[1].code)
        THEN /\ thrown[1].origin = "script"
             /\ thrown[1] # cause[1]
             /\ thrown[1].message.text[1] = "Network connection failed: "
             /\ "Please check your RPC_URL and internet connection."
                  \in Range(thrown[1].message.text)
        ELSE thrown[1] = cause[1]

\* a TIMEOUT of getBalance, the last of the calls
C12_Witness ==
    /\ ConnectFailed
    /\ cause[1].code = "TIMEOUT"
    /\ \E i \in 1..Len(stdout) : stdout[i] = Line("info", <<"Wallet address: ">>)
    /\ thrown[1].message.text[1] = "Network connection failed: "

ZeroBalanceText ==
    "Wallet has zero balance. You will need testnet ETH to register the schema."

\* C13: a zero balance is not fatal: once the balance was read, the
\* connection step has returned and the workflow goes on to the register
\* call, and the zero-balance warning is printed exactly when the balance is
\* zero.
C13_ZeroBalanceNotFatal ==
    balance # None =>
        /\ Rank(pc) >= 2
        /\ pc = "failed" => registerCalls = 1
        /\ Warned(ZeroBalanceText) <=> balance = Some(0)

C13_Witness ==
    /\ balance = Some(0)
    /\ Warned(ZeroBalanceText)
    /\ registerCalls = 1
    /\ pc = "succeeded"

ValidationFailed == pc = "failed" /\ config = None

\* C19: validateEnvironment raises one error, by precedence: the
\* missing-settings error when a required setting is absent or empty,
\* whatever the format of the others; otherwise the PRIVATE_KEY error when
\* the key is malformed, also when the address is malformed too; otherwise
\* the SCHEMA_REGISTRY_ADDRESS error; a configuration is returned only when
\* all three checks pass.
C19_ValidationPrecedence ==
    pc # "start" =>
        LET key == env.PRIVATE_KEY.val
            address == env.SCHEMA_REGISTRY_ADDRESS.val
        IN  /\ Accepted <=> (AllPresent /\ KeyShape(key) /\ AddressShape(address))
            /\ ~Accepted => ValidationFailed
            /\ ValidationFailed =>
                 thrown[1].message.text =
                    IF ~AllPresent
                    THEN <<"Missing required environment variables: ">>
                         \o SubSeq(thrown[1].message.text, 2, Len(thrown[1].message.text))
                    ELSE IF ~KeyShape(key)
                    THEN InvalidKeyMessage
                    ELSE InvalidAddressMessage

C19_Witness ==
    /\ ValidationFailed
    /\ AllPresent
    /\ ~KeyShape(env.PRIVATE_KEY.val)
    /\ ~AddressShape(env.SCHEMA_REGISTRY_ADDRESS.val)
    /\ thrown[1].message.text = InvalidKeyMessage

----------------------------------------------------------------------------
(* Properties of the routes of the HTTP service *)

\* what the properties say about a request, stated without the operators of
\* the model
MatchesRoute(req) == req.method = "GET" /\ req.path \in {"/", "/api/v1/health"}
BodyParses(req) == req.body \in {"none", "json"}
IsNotFound(answer, req) ==
    /\ answer.code = 404
    /\ answer.body # None
    /\ DOMAIN answer.body[1] = {"error", "message", "timestamp"}
    /\ req.method \in Range(answer.body[1].message)
    /\ req.path \in Range(answer.body[1].message)

\* C14 as stated: every request whose method and path match no defined
\* route is answered 404 with a body {error, message, timestamp} whose
\* message contains the method and the path.
C14_UnmatchedAlways404 ==
    (last # None /\ ~MatchesRoute(last[1].request))
        => IsNotFound(last[1].response, last[1].request)

\* C14 as amended: a request whose method and path match no defined route,
\* that is not an OPTIONS request and whose body does not fail to parse, is
\* answered 404 with a body {error, message, timestamp} whose message
\* contains the method and the path; an OPTIONS request is answered 204 by
\* the CORS middleware and a body that fails to parse is answered by the
\* global error handler.
C14_UnmatchedReachingRoutes404 ==
    (last # None /\ ~MatchesRoute(last[1].request))
        => LET req == last[1].request
               answer == last[1].response
           IN  /\ (req.method # "OPTIONS" /\ BodyParses(req)) => IsNotFound(answer, req)
               /\ req.method = "OPTIONS" => answer.code = 204
               /\ (req.method # "OPTIONS" /\ ~BodyParses(req)) => answer.code = 400

C14_Witness ==
    /\ last # None
    /\ last[1].request = [method |-> "POST", path |-> "/foo", query |-> "?x=1", body |-> "json"]
    /\ last[1].response.code = 404
    /\ last[1].response.body[1].message = <<"Route ", "POST", " ", "/foo", " not found">>

AnsweredByErrorHandler == last # None /\ last[1].handler = "error"

UniformErrorBody(answer) ==
    /\ answer.body # None
    /\ {"error", "message", "timestamp"} \subseteq DOMAIN answer.body[1]
    /\ answer.body[1].error = "SyntaxError"
    /\ answer.code = 400

\* C15 as stated: an error raised in the route chain is answered by the
\* global error handler with the body {error, message, timestamp}, and the
\* stack is in the body in every mode but production.
C15_StackUnlessProduction ==
    AnsweredByErrorHandler
        => /\ UniformErrorBody(last[1].response)
           /\ last[1].response.body[1].stack # None <=> nodeEnv # "production"

\* C15 as amended: an error raised in the route chain is answered by the
\* global error handler with the body {error, message, timestamp} while the
\* process keeps running, and the stack is in the body exactly when NODE_ENV
\* is "development": it is omitted in production, in any other mode, and
\* when NODE_ENV is not set.
C15_StackOnlyInDevelopment ==
    /\ [](AnsweredByErrorHandler
            => /\ UniformErrorBody(last[1].response)
               /\ last[1].response.body[1].stack # None <=> nodeEnv = "development")
    /\ [][(last' # last /\ last'[1].handler = "error")
            => process = "running" /\ process' = "running"]_vars

C15_Witness ==
    /\ AnsweredByErrorHandler
    /\ nodeEnv = "test"
    /\ last[1].response.body[1].stack = None
    /\ process = "running"

IsRootRequest(req) == req.method = "GET" /\ req.path = "/"
RootAnswered(l) == l # None /\ IsRootRequest(l[1].request)

\* C17 as stated: any two requests to GET /, whatever their bodies and query
\* strings, receive the same response body.
C17_RootSameForAnyBody ==
    [][(RootAnswered(last) /\ RootAnswered(last'))
         => /\ last'[1].response.code = last[1].response.code
            /\ DOMAIN last'[1].response.body[1] = DOMAIN last[1].response.body[1]
      ]_vars

\* C17 as amended: any two requests to GET / whose bodies do not fail to
\* parse, whatever their bodies and query strings, receive the same response,
\* the descriptor {service, version, description, endpoints}; a body that
\* fails to parse is answered by the global error handler instead.
C17_RootSameForParsedBody ==
    /\ [][(/\ RootAnswered(last) /\ BodyParses(last[1].request)
           /\ RootAnswered(last') /\ BodyParses(last'[1].request))
            => last'[1].response = last[1].response]_vars
    /\ []((RootAnswered(last) /\ BodyParses(last[1].request))
            => /\ last[1].response.code = 200
               /\ DOMAIN last[1].response.body[1]
                    = {"service", "version", "description", "endpoints"})

C17_Witness ==
    /\ RootAnswered(last)
    /\ last[1].request.query = "?x=1"
    /\ last[1].request.body = "json"
    /\ last[1].response.body[1].service = "Veryfiable Attestation Service"

HealthAnswered == last # None /\ IsHealthRequest(last[1].request)

HealthStatusByOutcome ==
    LET answer == last[1].response
        check == last[1].outcome[1]
    IN  /\ (~check.throws /\ ~check.value)
             => /\ answer.code = 200
                /\ answer.body[1].status = "healthy"
                /\ answer.body[1].database = "disconnected"
        /\ (answer.code = 503 \/ answer.body[1].status = "unhealthy") => check.throws

\* C18 as stated: a health request whose check resolves false is answered
\* 200, healthy, disconnected; 503 and unhealthy come only from a check that
\* throws; every health request is answered by the health handler, never by
\* the global error handler.
C18_HealthNeverErrorHandler ==
    HealthAnswered
        => /\ last[1].handler = "health"
           /\ last[1].outcome # None
           /\ HealthStatusByOutcome

\* C18 as amended: a health request whose check resolves false is answered
\* 200, healthy, disconnected; 503 and unhealthy come only from a check that
\* throws; every health request whose body does not fail to parse and whose
\* check settles receives exactly one response, from the health handler, and
\* is never passed to the global error handler.  A health request whose body
\* fails to parse never reaches the health handler: the global error handler
\* answers it.
C18_HealthHandledUnlessBodyFails ==
    /\ []((HealthAnswered /\ BodyParses(last[1].request))
            => /\ last[1].handler = "health"
               /\ last[1].outcome # None
               /\ HealthStatusByOutcome)
    /\ []((HealthAnswered /\ ~BodyParses(last[1].request)) => last[1].handler = "error")
    /\ [][Len(inflight') < Len(inflight)
            => /\ Len(inflight') = Len(inflight) - 1
               /\ last'[1].handler = "health"
               /\ last'[1].request \in Range(inflight)]_vars
    /\ [](\A i \in 1..Len(inflight) :
            IsHealthRequest(inflight[i]) /\ BodyParses(inflight[i]))

C18_Witness ==
    /\ HealthAnswered
    /\ last[1].handler = "health"
    /\ ~last[1].outcome[1].throws
    /\ ~last[1].outcome[1].value
    /\ last[1].response.code = 200
    /\ last[1].response.body[1].database = "disconnected"

----------------------------------------------------------------------------
(* Properties of the attestations table *)

DuplicatesUid(table, row) == \E r \in table : r.uid = row.uid
RatingOutOfRange(row) == row.rating # None /\ (row.rating[1] < 1 \/ row.rating[1] > 10)
RepeatsItem(table, row) ==
    \E r \in table : r.platform_id = row.platform_id /\ r.item_id = row.item_id
WellFormed(row) ==
    /\ row.uid # None /\ row.platform_id # None /\ row.item_id # None
    /\ row.rating # None /\ row.rating[1] \in 1..10
    /\ row.rest

\* C16: after any sequence of insertions no two rows of the attestations
\* table share a uid and every stored rating is in 1..10; an insertion that
\* would break either is rejected and leaves the table unchanged; an
\* insertion of an otherwise valid row that repeats the (platform_id,
\* item_id) pair of a stored row under a fresh uid is accepted.
C16_UidUniqueRatingBounded ==
    /\ [](\A r1, r2 \in attestations : r1.uid = r2.uid => r1 = r2)
    /\ [](\A r \in attestations : r.rating # None /\ r.rating[1] \in 1..10)
    /\ [][lastInsert' # lastInsert
            => LET row == lastInsert'[1].row
               IN  /\ (DuplicatesUid(attestations, row) \/ RatingOutOfRange(row))
                        => /\ ~lastInsert'[1].accepted
                           /\ attestations' = attestations
                   /\ (/\ WellFormed(row)
                       /\ ~DuplicatesUid(attestations, row)
                       /\ RepeatsItem(attestations, row))
                        => /\ lastInsert'[1].accepted
                           /\ attestations' = attestations \cup {row}
                           /\ attestations' # attestations]_vars

C16_Witness ==
    /\ lastInsert # None
    /\ lastInsert[1].accepted
    /\ \E r \in attestations :
          /\ r # lastInsert[1].row
          /\ r.platform_id = lastInsert[1].row.platform_id
          /\ r.item_id = lastInsert[1].row.item_id
          /\ r.uid # lastInsert[1].row.uid

====
